---- MODULE Spec2Model ----
(***************************************************************************)
(* Model of the MilestoneEscrow contract (contracts/src/lib.rs).           *)
(*                                                                         *)
(* The contract keeps six values in the instance storage of one contract   *)
(* instance, under the keys of DataKey.  Every entry point runs to         *)
(* completion inside one host invocation: a panic (a failed require_auth,  *)
(* an unwrap of a missing key, an explicit panic!, a failing token         *)
(* transfer) aborts the invocation and the host discards its writes.       *)
(* Each entry point is an operator from the storage before the call and    *)
(* the call's inputs to the outcome of the call; the actions apply it.     *)
(***************************************************************************)
EXTENDS Integers, Sequences, FiniteSets, TLC

\* ---------------------------------------------------------------- bounds
NumAddr == 3
MaxAmount == 1
MaxCustody == 3

Address == 1..NumAddr
\* The token reference handed to init.  The escrow stores it and hands it to
\* the token client and never looks at it, so one token contract, at an
\* address that is no party's, stands for all of them.
TokenAddr == {NumAddr + 1}
Amounts == (0 - MaxAmount)..MaxAmount
\* the amounts a client funds with when only positive amounts are funded
PositiveAmounts == 1..MaxAmount

\* env.current_contract_address(): the custody address, no caller's address
ContractAddress == 0

\* ---------------------------------------------------------------- types
\* enum Status
Pending == 0
Funded == 1
Completed == 2

\* enum DataKey
DataKey == {"Client", "Freelancer", "Arbiter", "Amount", "Status", "TokenAddress"}

VARIABLES storage, last, released, custody

vars == <<storage, last, released, custody>>

\* ------------------------------------------------------- instance storage
\* env.storage().instance().get(&k) is Some(_)
has(s, k) == k \in DOMAIN s

\* env.storage().instance().set(&k, &v)
set(s, k, v) ==
    IF k \in DOMAIN s THEN [s EXCEPT ![k] = v]
    ELSE [x \in (DOMAIN s) \cup {k} |-> IF x = k THEN v ELSE s[x]]

EmptyStorage == [x \in {} |-> 0]

\* ---------------------------------------------------------------- outcomes
\* an invocation that panicked: the host keeps the storage it started with
Abort(s, err, xfers) ==
    [ok |-> FALSE, err |-> err, storage |-> s, xfers |-> xfers]

\* an invocation that returned
Return(s, xfers) ==
    [ok |-> TRUE, err |-> "none", storage |-> s, xfers |-> xfers]

\* one token_client.transfer(from, to, amount) of the token contract `token`
Transfer(token, from, to, amount) ==
    [token |-> token, from |-> from, to |-> to, amount |-> amount]

\* ---------------------------------------------------------------- init
\* variant: the amount not reset by init
InitWrites_KeepsAmount(s, client, freelancer, arbiter, token) ==
    [k \in (DOMAIN s) \cup DataKey |->
        CASE k = "Client" -> client
          [] k = "Freelancer" -> freelancer
          [] k = "Arbiter" -> arbiter
          [] k = "TokenAddress" -> token
          [] k = "Amount" -> (IF has(s, "Amount") THEN s["Amount"] ELSE 0)
          [] k = "Status" -> Pending
          [] OTHER -> s[k]]

\* the six unconditional writes of init, in one step: whatever was stored
\* under a key of DataKey is replaced
InitWrites(s, client, freelancer, arbiter, token) ==
    [k \in (DOMAIN s) \cup DataKey |->
        CASE k = "Client" -> client
          [] k = "Freelancer" -> freelancer
          [] k = "Arbiter" -> arbiter
          [] k = "TokenAddress" -> token
          [] k = "Amount" -> 0
          [] k = "Status" -> Pending
          [] OTHER -> s[k]]

init(s, client, freelancer, arbiter, token) ==
    Return(InitWrites(s, client, freelancer, arbiter, token), <<>>)

\* ---------------------------------------------------------- fund_milestone
\* variant: the role check left out
FundAllowed_Anyone(from, client) == TRUE

\* if from != client { panic!(..) }
FundAllowed(from, client) == from = client

\* variant: the funded amount added to the stored one
FundWrites_Accumulates(s, amount) ==
    set(set(s, "Amount", s["Amount"] + amount), "Status", Funded)

\* the two writes that follow the transfer
FundWrites(s, amount) ==
    set(set(s, "Amount", amount), "Status", Funded)

\* the transfer fund_milestone asks of the token contract
FundTransfer(s, from, amount) ==
    Transfer(s["TokenAddress"], from, ContractAddress, amount)

\* variant: the outcome of the transfer not looked at
AfterTransfer_FailureIgnored(s, written, xfer, xferOk) ==
    Return(written, <<xfer>>)

\* variant: the writes made before the transfer and its failure swallowed
AfterTransfer_WritesKept(s, written, xfer, xferOk) ==
    IF xferOk THEN Return(written, <<xfer>>)
    ELSE Abort(written, "transfer failed", <<xfer>>)

\* token_client.transfer(..) panics when the token contract fails, so the
\* writes after it are reached only when it returned
AfterTransfer(s, written, xfer, xferOk) ==
    IF xferOk THEN Return(written, <<xfer>>)
    ELSE Abort(s, "transfer failed", <<xfer>>)

\* variant: a status check added, funding allowed from Pending only
fund_milestone_OnlyPending(s, from, amount, authed, xferOk) ==
    IF ~authed THEN Abort(s, "require_auth failed", <<>>)
    ELSE IF ~has(s, "Client") THEN Abort(s, "unwrap on None", <<>>)
    ELSE IF ~FundAllowed(from, s["Client"])
         THEN Abort(s, "Only client can fund", <<>>)
    ELSE IF ~has(s, "Status") THEN Abort(s, "unwrap on None", <<>>)
    ELSE IF s["Status"] # Pending THEN Abort(s, "Already funded", <<>>)
    ELSE IF ~has(s, "TokenAddress") THEN Abort(s, "unwrap on None", <<>>)
    ELSE AfterTransfer(s, FundWrites(s, amount),
                       FundTransfer(s, from, amount), xferOk)

\* variant: the record read and the role checked before require_auth
fund_milestone_RoleFirst(s, from, amount, authed, xferOk) ==
    IF ~has(s, "Client") THEN Abort(s, "unwrap on None", <<>>)
    ELSE IF ~FundAllowed(from, s["Client"])
         THEN Abort(s, "Only client can fund", <<>>)
    ELSE IF ~authed THEN Abort(s, "require_auth failed", <<>>)
    ELSE IF ~has(s, "TokenAddress") THEN Abort(s, "unwrap on None", <<>>)
    ELSE AfterTransfer(s, FundWrites(s, amount),
                       FundTransfer(s, from, amount), xferOk)

fund_milestone(s, from, amount, authed, xferOk) ==
    IF ~authed THEN Abort(s, "require_auth failed", <<>>)
    ELSE IF ~has(s, "Client") THEN Abort(s, "unwrap on None", <<>>)
    ELSE IF ~FundAllowed(from, s["Client"])
         THEN Abort(s, "Only client can fund", <<>>)
    ELSE IF ~has(s, "TokenAddress") THEN Abort(s, "unwrap on None", <<>>)
    ELSE AfterTransfer(s, FundWrites(s, amount),
                       FundTransfer(s, from, amount), xferOk)

\* ----------------------------------------------------------- release_funds
\* variant: the arbiter half of the role check inverted
ReleaseAllowed_Wrong(caller, client, arbiter) ==
    ~(caller # client /\ caller = arbiter)

\* if caller != client && caller != arbiter { panic!(..) }
ReleaseAllowed(caller, client, arbiter) ==
    ~(caller # client /\ caller # arbiter)

\* variant: every status but Funded rejected
AlreadyReleased_UnlessFunded(status) == status # Funded

\* if matches!(status, Status::Completed) { panic!(..) }
AlreadyReleased(status) == status = Completed

\* variant: the amount not reset
ReleaseWrites_KeepsAmount(s) == set(s, "Status", Completed)

\* the two writes that follow the transfer
ReleaseWrites(s) ==
    set(set(s, "Status", Completed), "Amount", 0)

\* variant: the payout sent back to the client
ReleaseTransfer_ToClient(s) ==
    Transfer(s["TokenAddress"], ContractAddress, s["Client"], s["Amount"])

\* the transfer release_funds asks of the token contract
ReleaseTransfer(s) ==
    Transfer(s["TokenAddress"], ContractAddress, s["Freelancer"], s["Amount"])

\* variant: a missing record read as an unfunded one (unwrap_or on the reads)
release_funds_MissingAsPending(s, caller, authed, xferOk) ==
    IF ~authed THEN Abort(s, "require_auth failed", <<>>)
    ELSE IF ~has(s, "Client") THEN Return(ReleaseWrites(s), <<>>)
    ELSE IF ~ReleaseAllowed(caller, s["Client"], s["Arbiter"])
         THEN Abort(s, "Only client or arbiter can release funds", <<>>)
    ELSE IF AlreadyReleased(s["Status"])
         THEN Abort(s, "Funds already released", <<>>)
    ELSE AfterTransfer(s, ReleaseWrites(s), ReleaseTransfer(s), xferOk)

release_funds(s, caller, authed, xferOk) ==
    IF ~authed THEN Abort(s, "require_auth failed", <<>>)
    ELSE IF ~has(s, "Client") \/ ~has(s, "Arbiter")
         THEN Abort(s, "unwrap on None", <<>>)
    ELSE IF ~ReleaseAllowed(caller, s["Client"], s["Arbiter"])
         THEN Abort(s, "Only client or arbiter can release funds", <<>>)
    ELSE IF ~has(s, "Status") THEN Abort(s, "unwrap on None", <<>>)
    ELSE IF AlreadyReleased(s["Status"])
         THEN Abort(s, "Funds already released", <<>>)
    ELSE IF ~has(s, "Freelancer") \/ ~has(s, "Amount") \/ ~has(s, "TokenAddress")
         THEN Abort(s, "unwrap on None", <<>>)
    ELSE AfterTransfer(s, ReleaseWrites(s), ReleaseTransfer(s), xferOk)

\* ---------------------------------------------------------------- queries
\* variant: the wrong default for a missing status
status_DefaultFunded(s) == IF has(s, "Status") THEN s["Status"] ELSE Funded

status(s) == IF has(s, "Status") THEN s["Status"] ELSE Pending

get_amount(s) == IF has(s, "Amount") THEN s["Amount"] ELSE 0

\* variant: the default stored when the key is missing
StatusCall_StoresDefault(s) == Return(set(s, "Status", status(s)), <<>>)

\* the invocations of status() and get_amount(): they read, fall back on the
\* default and write nothing
StatusCall(s) == Return(s, <<>>)

GetAmountCall(s) == Return(s, <<>>)

\* ------------------------------------------------------------ token ledger
\* What the token contract holds for the custody address, for a token
\* contract that moves exactly what it is asked to move when it accepts a
\* transfer and nothing when it refuses.
Moved(r, xferOk) == IF xferOk THEN r.xfers ELSE <<>>

Delta(x) ==
    (IF x.to = ContractAddress THEN x.amount ELSE 0)
      - (IF x.from = ContractAddress THEN x.amount ELSE 0)

CustodyAfter(c, moved) ==
    IF moved = <<>> THEN c ELSE c + Delta(moved[1])

\* ---------------------------------------------------------------- actions
\* The call that was made last and how it ended, as its caller and the token
\* contract saw it: the entry point and its arguments, whether the
\* invocation carried the caller's authorization, whether it returned, the
\* panic otherwise, the transfers it asked for, the value it returned, and
\* what the amount and status were before it and whether it left the storage
\* as it found it.
Call(op, caller, amount, authed, s, r, ret) ==
    [op |-> op, caller |-> caller, amount |-> amount, authed |-> authed,
     ok |-> r.ok, err |-> r.err, xfers |-> r.xfers, ret |-> ret,
     existed |-> has(s, "Client"),
     preAmount |-> get_amount(s), preStatus |-> status(s),
     changed |-> (r.storage # s)]

Init ==
    /\ storage = EmptyStorage
    /\ last = Call("none", 0, 0, TRUE, EmptyStorage,
                   Return(EmptyStorage, <<>>), 0)
    /\ released = FALSE
    /\ custody = 0

DoInit ==
    \E client \in Address, freelancer \in Address, arbiter \in Address,
       token \in TokenAddr :
        LET r == init(storage, client, freelancer, arbiter, token) IN
        /\ storage' = r.storage
        /\ last' = Call("init", 0, 0, TRUE, storage, r, 0)
        /\ UNCHANGED <<released, custody>>

\* fund_milestone and release_funds of the escrow alone: any amount, the
\* token contract's answer open, its ledger not followed
DoFund ==
    \E from \in Address, amount \in Amounts, authed \in BOOLEAN,
       xferOk \in BOOLEAN :
        LET r == fund_milestone(storage, from, amount, authed, xferOk) IN
        /\ storage' = r.storage
        /\ last' = Call("fund_milestone", from, amount, authed, storage, r, 0)
        /\ UNCHANGED <<released, custody>>

DoRelease ==
    \E caller \in Address, authed \in BOOLEAN, xferOk \in BOOLEAN :
        LET r == release_funds(storage, caller, authed, xferOk) IN
        /\ storage' = r.storage
        /\ last' = Call("release_funds", caller, 0, authed, storage, r, 0)
        /\ released' = (released \/ r.ok)
        /\ UNCHANGED custody

DoStatus ==
    LET r == StatusCall(storage) IN
    /\ storage' = r.storage
    /\ last' = Call("status", 0, 0, TRUE, storage, r, status(storage))
    /\ UNCHANGED <<released, custody>>

DoGetAmount ==
    LET r == GetAmountCall(storage) IN
    /\ storage' = r.storage
    /\ last' = Call("get_amount", 0, 0, TRUE, storage, r, get_amount(storage))
    /\ UNCHANGED <<released, custody>>

Next == DoInit \/ DoFund \/ DoRelease \/ DoStatus \/ DoGetAmount

Spec == Init /\ [][Next]_vars

\* The escrow together with the token ledger, funded with positive amounts
\* only; the ledger is followed up to MaxCustody.
DoFundC ==
    \E from \in Address, amount \in PositiveAmounts, authed \in BOOLEAN,
       xferOk \in BOOLEAN :
        /\ custody + amount <= MaxCustody
        /\ LET r == fund_milestone(storage, from, amount, authed, xferOk) IN
           /\ storage' = r.storage
           /\ last' = Call("fund_milestone", from, amount, authed, storage, r, 0)
           /\ custody' = CustodyAfter(custody, Moved(r, xferOk))
           /\ UNCHANGED released

DoReleaseC ==
    \E caller \in Address, authed \in BOOLEAN, xferOk \in BOOLEAN :
        LET r == release_funds(storage, caller, authed, xferOk) IN
        /\ storage' = r.storage
        /\ last' = Call("release_funds", caller, 0, authed, storage, r, 0)
        /\ released' = (released \/ r.ok)
        /\ custody' = CustodyAfter(custody, Moved(r, xferOk))

NextCustody == DoInit \/ DoFundC \/ DoReleaseC \/ DoStatus \/ DoGetAmount

SpecCustody == Init /\ [][NextCustody]_vars

\* ======================================================================
\* Properties
\* ======================================================================
Initialized(s) == DataKey \subseteq DOMAIN s

IsCall(op) == last.op = op

\* the failures the spec files under Unauthorized: no proof of identity, or
\* the wrong role
UnauthorizedErrs ==
    {"require_auth failed", "Only client can fund",
     "Only client or arbiter can release funds"}

\* C1: no double release. Once a release_funds call has succeeded, every
\* later release_funds call fails with the already-released panic, whoever of
\* client and arbiter calls and whatever was called in between.  Stated for
\* the calls that carry the caller's authorization and whose transfer, were
\* one asked for, the token contract would carry out.
C1_NoDoubleRelease ==
    [][ ( /\ released
          /\ last'.op = "release_funds"
          /\ Initialized(storage)
          /\ last'.caller \in {storage["Client"], storage["Arbiter"]}
          /\ last'.err \notin {"require_auth failed", "transfer failed"} )
        => (~last'.ok /\ last'.err = "Funds already released") ]_vars

\* C2: custody invariant I1. In every reachable state a Completed status
\* comes with amount 0, and right after a successful release_funds the status
\* is Completed and the amount 0 together.
C2_CompletedMeansEmpty ==
    /\ status(storage) = Completed => get_amount(storage) = 0
    /\ (IsCall("release_funds") /\ last.ok)
         => (status(storage) = Completed /\ get_amount(storage) = 0)

\* a release that paid out a funded amount has just succeeded
C2_Witness ==
    /\ IsCall("release_funds") /\ last.ok
    /\ last.preStatus = Funded /\ last.preAmount > 0
    /\ status(storage) = Completed

\* C3: fund role gating. On an initialized escrow fund_milestone by anyone
\* but the stored client fails as unauthorized, asks for no transfer and
\* leaves amount and status as they were, for every amount and also when the
\* caller's authorization is valid.
C3_FundRoleGating ==
    (IsCall("fund_milestone") /\ last.existed
        /\ last.caller # storage["Client"])
    => /\ ~last.ok
       /\ last.err \in UnauthorizedErrs
       /\ last.xfers = <<>>
       /\ get_amount(storage) = last.preAmount
       /\ status(storage) = last.preStatus

\* an authorized non-client tried to fund with a positive amount and was
\* turned away by the role check
C3_Witness ==
    /\ IsCall("fund_milestone") /\ last.existed
    /\ last.caller # storage["Client"]
    /\ last.amount > 0
    /\ last.err = "Only client can fund"

\* C4: release role gating. On an initialized escrow release_funds by anyone
\* who is neither the stored client nor the stored arbiter, the freelancer
\* included, fails as unauthorized, asks for no transfer and leaves the whole
\* record as it was.
C4_ReleaseRoleGating ==
    (IsCall("release_funds") /\ last.existed
        /\ last.caller \notin {storage["Client"], storage["Arbiter"]})
    => /\ ~last.ok
       /\ last.err \in UnauthorizedErrs
       /\ last.xfers = <<>>
       /\ ~last.changed
       /\ get_amount(storage) = last.preAmount
       /\ status(storage) = last.preStatus

\* the freelancer, authorized, tried to release a funded escrow and was
\* turned away by the role check
C4_Witness ==
    /\ IsCall("release_funds") /\ last.existed
    /\ last.caller = storage["Freelancer"]
    /\ last.caller \notin {storage["Client"], storage["Arbiter"]}
    /\ last.err = "Only client or arbiter can release funds"
    /\ status(storage) = Funded /\ get_amount(storage) > 0

\* C5: transfer-failure atomicity. When the token transfer fails in
\* fund_milestone or release_funds the call fails and no field of the record
\* differs from before the call; a call that changed the record is one whose
\* transfer succeeded.
C5_TransferFailureAtomic ==
    /\ last.err = "transfer failed"
         => /\ ~last.ok
            /\ ~last.changed
            /\ get_amount(storage) = last.preAmount
            /\ status(storage) = last.preStatus
    /\ (last.op \in {"fund_milestone", "release_funds"} /\ last.changed)
         => (last.ok /\ Len(last.xfers) = 1)

\* the payout of a funded escrow was refused by the token contract
C5_Witness ==
    /\ IsCall("release_funds")
    /\ last.err = "transfer failed"
    /\ Len(last.xfers) = 1
    /\ status(storage) = Funded /\ get_amount(storage) > 0

\* C6: status is monotonic. No call takes the status back from Completed to
\* Funded or Pending, or from Funded to Pending.
C6_StatusMonotonic ==
    [][ status(storage') >= status(storage) ]_vars

\* C7: init is once-only. init on an instance that already holds a record
\* fails with AlreadyInitialized and leaves the record as it was.
C7_InitOnceOnly ==
    (IsCall("init") /\ last.existed)
    => (~last.ok /\ last.err = "AlreadyInitialized" /\ ~last.changed)

\* C8: write-once participants (I3). After the first init the stored client,
\* freelancer, arbiter and token address never change.
C8_WriteOnceParticipants ==
    [][ Initialized(storage)
        => \A k \in {"Client", "Freelancer", "Arbiter", "TokenAddress"} :
              has(storage', k) /\ storage'[k] = storage[k] ]_vars

\* C9: release effect. On an initialized escrow that is not Completed, an
\* authorized release_funds by the client or the arbiter whose transfer
\* succeeds goes through, asks for exactly one transfer, of the amount stored
\* before the call, from the custody address to the stored freelancer, and
\* leaves status Completed and amount 0.
C9_ReleaseEffect ==
    /\ (IsCall("release_funds") /\ last.existed
          /\ last.caller \in {storage["Client"], storage["Arbiter"]}
          /\ last.preStatus # Completed
          /\ last.err \notin {"require_auth failed", "transfer failed"})
         => last.ok
    /\ (IsCall("release_funds") /\ last.ok)
         => /\ last.xfers = << Transfer(storage["TokenAddress"], ContractAddress,
                                        storage["Freelancer"], last.preAmount) >>
            /\ status(storage) = Completed
            /\ get_amount(storage) = 0
            /\ last.preStatus # Completed

\* the arbiter, who is not the client, released a funded escrow to a
\* freelancer who is neither of them
C9_Witness ==
    /\ IsCall("release_funds") /\ last.ok
    /\ last.caller = storage["Arbiter"]
    /\ storage["Arbiter"] # storage["Client"]
    /\ storage["Freelancer"] \notin {storage["Client"], storage["Arbiter"]}
    /\ last.preStatus = Funded /\ last.preAmount > 0

\* C10: fund effect. On an initialized escrow fund_milestone(client, a) that
\* the client authorized and whose transfer succeeds goes through, asks for
\* one transfer of a from the client to the custody address and leaves status
\* Funded and amount a, which status() and get_amount() then return.
C10_FundEffect ==
    /\ (IsCall("fund_milestone") /\ last.existed
          /\ last.caller = storage["Client"]
          /\ last.err \notin {"require_auth failed", "transfer failed"})
         => last.ok
    /\ (IsCall("fund_milestone") /\ last.ok)
         => /\ last.caller = storage["Client"]
            /\ last.xfers = << Transfer(storage["TokenAddress"], storage["Client"],
                                        ContractAddress, last.amount) >>
            /\ status(storage) = Funded
            /\ get_amount(storage) = last.amount

\* the client funded, with a positive amount, an escrow that already held a
\* positive amount
C10_Witness ==
    /\ IsCall("fund_milestone") /\ last.ok
    /\ last.amount > 0
    /\ last.preStatus = Funded /\ last.preAmount > 0

\* C11: fund requires a positive amount. fund_milestone(client, a) with
\* a <= 0 is rejected by the escrow itself: it fails, asks for no transfer and
\* leaves amount and status as they were.
C11_FundNeedsPositiveAmount ==
    (IsCall("fund_milestone") /\ last.existed /\ last.authed
        /\ last.caller = storage["Client"] /\ last.amount <= 0)
    => /\ ~last.ok
       /\ last.xfers = <<>>
       /\ get_amount(storage) = last.preAmount
       /\ status(storage) = last.preStatus

\* C12: non-negative custody amount. In every reachable state the stored
\* amount is >= 0, whatever i128 amounts the calls were given.
C12_AmountNonNegative == get_amount(storage) >= 0

\* C13: invariant I2. In every reachable state a positive amount comes with a
\* status other than Pending, and a record in Pending status holds amount 0.
C13_PendingHoldsNothing ==
    /\ get_amount(storage) > 0 => status(storage) # Pending
    /\ status(storage) = Pending => get_amount(storage) = 0

\* init has run again on an escrow that held a positive amount, and the
\* record is Pending and empty
C13_Witness ==
    /\ IsCall("init") /\ last.existed
    /\ last.preStatus = Funded /\ last.preAmount > 0
    /\ status(storage) = Pending /\ get_amount(storage) = 0

\* C14: authorization and preconditions come first. In fund_milestone and
\* release_funds a call without the caller's authorization ends in the
\* require_auth failure whatever the record holds, so before the record is
\* read; a transfer is asked for only in a call that is authorized, finds a
\* record, passes the role check and, for release_funds, finds a status other
\* than Completed; and a call that fails for another reason than the
\* transfer asked for no transfer, and a failed call leaves the record as it
\* was.
C14_ChecksComeFirst ==
    (last.op \in {"fund_milestone", "release_funds"})
    => /\ ~last.authed => last.err = "require_auth failed"
       /\ last.xfers # <<>>
            => /\ last.authed
               /\ last.existed
               /\ IsCall("fund_milestone") => last.caller = storage["Client"]
               /\ IsCall("release_funds")
                    => /\ last.caller \in {storage["Client"], storage["Arbiter"]}
                       /\ last.preStatus # Completed
       /\ (~last.ok /\ last.err # "transfer failed") => last.xfers = <<>>
       /\ ~last.ok
            => /\ ~last.changed
               /\ get_amount(storage) = last.preAmount
               /\ status(storage) = last.preStatus

\* someone who is not the client called fund_milestone without authorization
\* and the call ended in the require_auth failure, not in the role check's
C14_Witness ==
    /\ IsCall("fund_milestone") /\ last.existed
    /\ ~last.authed
    /\ last.caller # storage["Client"]
    /\ last.err = "require_auth failed"
    /\ last.xfers = <<>>

\* C15: queries are side-effect free. status() and get_amount() return
\* without any authorization, change no field of the record and ask for no
\* transfer, and the value returned is the stored status, respectively the
\* stored amount, of the record they leave behind, so that a repeated query
\* returns the same value.
C15_QueriesReadOnly ==
    /\ last.op \in {"status", "get_amount"}
         => (last.ok /\ ~last.changed /\ last.xfers = <<>>)
    /\ IsCall("status")
         => (last.ret = status(storage) /\ last.ret = last.preStatus)
    /\ IsCall("get_amount")
         => (last.ret = get_amount(storage) /\ last.ret = last.preAmount)

\* status() was called on a funded escrow and returned Funded
C15_Witness ==
    /\ IsCall("status")
    /\ last.ret = Funded
    /\ Initialized(storage) /\ storage["Amount"] > 0

\* C16: initial values. While no init has run, status() returns Pending and
\* get_amount() returns 0; right after an init that returned, the record
\* holds the four arguments with status Pending and amount 0, which is what
\* the two queries return then, and no transfer was asked for.
C16_InitialValues ==
    /\ (IsCall("status") /\ ~last.existed) => last.ret = Pending
    /\ (IsCall("get_amount") /\ ~last.existed) => last.ret = 0
    /\ Initialized(storage) \/ storage = EmptyStorage
    /\ storage = EmptyStorage
         => (status(storage) = Pending /\ get_amount(storage) = 0)
    /\ IsCall("init")
         => /\ last.ok
            /\ last.xfers = <<>>
            /\ Initialized(storage)
            /\ status(storage) = Pending
            /\ get_amount(storage) = 0
    /\ (IsCall("status") /\ last.existed /\ last.preStatus = Pending
          /\ last.preAmount = 0)
         => last.ret = Pending

\* the first init of an instance has just returned
C16_Witness ==
    /\ IsCall("init") /\ last.ok
    /\ ~last.existed
    /\ Initialized(storage)
    /\ storage["Client"] # storage["Freelancer"]
    /\ storage["Arbiter"] \notin {storage["Client"], storage["Freelancer"]}

\* the tokens the custody address holds that the record does not count
Stranded == custody - get_amount(storage)

\* C17: re-funding overwrites. fund_milestone is not guarded by status: on an
\* escrow that is Funded with amount a1, a further authorized
\* fund_milestone(client, a2) whose transfer the token contract carries out
\* goes through, pulls a2 more tokens from the client into custody and
\* leaves the stored amount at a2, not a1 + a2, so that the a1 tokens pulled
\* before stay in custody uncounted; and no call ever lowers the number of
\* uncounted tokens in custody, so a later release_funds does not pay them
\* out.
C17_RefundOverwrites ==
    [][ /\ Stranded' >= Stranded
        /\ ( /\ last'.op = "fund_milestone"
             /\ Initialized(storage)
             /\ status(storage) = Funded
             /\ last'.caller = storage["Client"]
             /\ last'.authed
             /\ last'.err # "transfer failed" )
           => /\ last'.ok
              /\ last'.xfers = << Transfer(storage["TokenAddress"],
                                           storage["Client"], ContractAddress,
                                           last'.amount) >>
              /\ status(storage') = Funded
              /\ get_amount(storage') = last'.amount
              /\ custody' = custody + last'.amount
              /\ Stranded' = Stranded + get_amount(storage) ]_vars

\* an escrow funded twice has been released: the payout was the stored
\* amount and tokens are left in custody that the record does not count
C17_Witness ==
    /\ IsCall("release_funds") /\ last.ok
    /\ last.preStatus = Funded /\ last.preAmount > 0
    /\ get_amount(storage) = 0
    /\ custody > 0
    /\ Stranded = custody

\* C18: vacuous release from Pending. On an initialized escrow in status
\* Pending, which holds amount 0, an authorized release_funds by the client
\* or the arbiter whose transfer the token contract accepts goes through,
\* asks for one transfer of 0 to the freelancer and leaves status Completed
\* and amount 0; a release_funds by the client or the arbiter that finds the
\* status Completed, as the next one does, fails as already released and
\* asks for no transfer.
C18_VacuousRelease ==
    /\ (IsCall("release_funds") /\ last.existed /\ last.authed
          /\ last.caller \in {storage["Client"], storage["Arbiter"]}
          /\ last.preStatus = Pending
          /\ last.err # "transfer failed")
         => /\ last.ok
            /\ last.preAmount = 0
            /\ last.xfers = << Transfer(storage["TokenAddress"], ContractAddress,
                                        storage["Freelancer"], 0) >>
            /\ status(storage) = Completed
            /\ get_amount(storage) = 0
    /\ (IsCall("release_funds") /\ last.existed /\ last.authed
          /\ last.caller \in {storage["Client"], storage["Arbiter"]}
          /\ last.preStatus = Completed)
         => /\ ~last.ok
            /\ last.err = "Funds already released"
            /\ last.xfers = <<>>
            /\ ~last.changed

\* the arbiter released an escrow that was never funded
C18_Witness ==
    /\ IsCall("release_funds") /\ last.ok
    /\ last.preStatus = Pending
    /\ last.caller = storage["Arbiter"]
    /\ storage["Arbiter"] # storage["Client"]
    /\ Len(last.xfers) = 1 /\ last.xfers[1].amount = 0
    /\ status(storage) = Completed

\* what the custody address held before the last call
PreCustody ==
    custody - (IF last.ok /\ last.xfers # <<>> THEN Delta(last.xfers[1]) ELSE 0)

\* C19: custody covers the record. With a token contract that moves exactly
\* what it is asked to and with positive amounts funded, in every reachable
\* state the tokens pulled from the client less the tokens paid to the
\* freelancer are at least the stored amount and never negative, and a
\* release_funds never asks the token contract to pay out more than the
\* custody address held.
C19_CustodyCoversRecord ==
    /\ custody >= get_amount(storage)
    /\ get_amount(storage) >= 0
    /\ custody >= 0
    /\ (IsCall("release_funds") /\ last.xfers # <<>>)
         => /\ last.xfers[1].amount = last.preAmount
            /\ last.xfers[1].amount <= PreCustody

\* a funded escrow was released and the payout emptied the custody address
C19_Witness ==
    /\ IsCall("release_funds") /\ last.ok
    /\ last.preStatus = Funded /\ last.preAmount > 0
    /\ PreCustody = last.preAmount
    /\ custody = 0

\* C20: operations before initialization fail cleanly. On an instance init
\* has never run on, every fund_milestone and release_funds call fails, on
\* the missing record when it carries the caller's authorization, asks for no
\* transfer and creates no record, so that status() and get_amount() go on
\* returning Pending and 0.
C20_UninitializedFailsCleanly ==
    (last.op \in {"fund_milestone", "release_funds"} /\ ~last.existed)
    => /\ ~last.ok
       /\ last.authed => last.err = "unwrap on None"
       /\ last.xfers = <<>>
       /\ ~last.changed
       /\ storage = EmptyStorage
       /\ status(storage) = Pending
       /\ get_amount(storage) = 0

\* an authorized fund_milestone with a positive amount hit the missing record
C20_Witness ==
    /\ IsCall("fund_milestone")
    /\ ~last.existed /\ last.authed
    /\ last.amount > 0
    /\ last.err = "unwrap on None"
    /\ storage = EmptyStorage

====
